---- MODULE Spec2Model ----
(***************************************************************************)
(* A model of src/src/clean_data.py: the cleaning pipeline                 *)
(*   load_data -> handle_missingvalue -> ensure_data_type_consistency      *)
(*             -> normalize_and_standardize                                *)
(* over three tables (Article = df_data, DomainLocation =                  *)
(* df_domains_location, Traffic = df_traffic), and of the call the test    *)
(* src/src/test/test_cleandata.py makes.                                   *)
(*                                                                         *)
(* A table is a record [cols, rows]: the set of its column names and the   *)
(* sequence of its rows, each row a function from cols to cells.  A cell   *)
(* is a record [k, s, n]: k is the kind of the value ("nan" the missing    *)
(* marker NaN/NaT/None, "str" a Python str, "num" a number, "ts" a         *)
(* Timestamp), s the characters of a str or of a Timestamp's source text   *)
(* (a sequence of one-character strings), n the value of a number.         *)
(***************************************************************************)
EXTENDS Integers, Sequences, FiniteSets, TLC

\* ------------------------------------------------------------------ bounds
\* Longest text drawn for a cell in the Normalizer's own specification.
MaxLen == 4
\* The size of the largest input the pipeline is run on: the rows of the
\* three files together, plus the columns data.csv lacks.
MaxRows == 2

\* ------------------------------------------------------------------- cells
NaN == [k |-> "nan", s |-> <<>>, n |-> 0]
Str(chars) == [k |-> "str", s |-> chars, n |-> 0]
Num(value) == [k |-> "num", s |-> <<>>, n |-> value]
Timestamp(chars) == [k |-> "ts", s |-> chars, n |-> 0]

\* pd.isna / isnull: NaN, None and NaT are missing; "" and "nan" are not.
IsNa(v) == v.k = "nan"

\* ------------------------------------------------------------- characters
UpperLetters ==
  << "A","B","C","D","E","F","G","H","I","J","K","L","M",
     "N","O","P","Q","R","S","T","U","V","W","X","Y","Z" >>
LowerLetters ==
  << "a","b","c","d","e","f","g","h","i","j","k","l","m",
     "n","o","p","q","r","s","t","u","v","w","x","y","z" >>
UpperSet == { UpperLetters[i] : i \in DOMAIN UpperLetters }
IsUpper(c) == c \in UpperSet
\* the lowercase letter of each uppercase letter
LowerOf == [c \in UpperSet |->
              LowerLetters[CHOOSE i \in DOMAIN UpperLetters : UpperLetters[i] = c]]

\* string.punctuation (without the grave accent, which a TLA+ string cannot hold)
Punctuation ==
  { "!", "\"", "#", "$", "%", "&", "'", "(", ")", "*", "+", ",", "-", ".",
    "/", ":", ";", "<", "=", ">", "?", "@", "[", "\\", "]", "^", "_",
    "{", "|", "}", "~" }

\* what str.strip() with no argument removes (the ASCII part)
Whitespace == { " ", "\t", "\n", "\r", "\f" }

Digits == << "0", "1", "2", "3", "4", "5", "6", "7", "8", "9" >>
IsDigit(c) == \E i \in DOMAIN Digits : Digits[i] = c
DigitValue(c) == (CHOOSE i \in DOMAIN Digits : Digits[i] = c) - 1

\* ------------------------------------------------------------ str methods
\* str.lower()
LowerChar(c) == IF IsUpper(c) THEN LowerOf[c] ELSE c
Lower(s) == [i \in 1..Len(s) |-> LowerChar(s[i])]

\* str.strip()
RECURSIVE LStrip(_)
LStrip(s) ==
  IF s # <<>> /\ Head(s) \in Whitespace THEN LStrip(Tail(s)) ELSE s
RECURSIVE RStrip(_)
RStrip(s) ==
  IF s # <<>> /\ s[Len(s)] \in Whitespace
    THEN RStrip(SubSeq(s, 1, Len(s) - 1))
    ELSE s
Strip(s) == RStrip(LStrip(s))

\* text.translate(str.maketrans('', '', string.punctuation))
IsKept(c) == c \notin Punctuation
RemovePunctuation(s) == SelectSeq(s, IsKept)

\* str(n) of a non-negative int
RECURSIVE IntToChars(_)
IntToChars(n) ==
  IF n < 10 THEN << Digits[n + 1] >>
  ELSE Append(IntToChars(n \div 10), Digits[(n % 10) + 1])

\* the value of a string of decimal digits
RECURSIVE CharsToInt(_)
CharsToInt(s) ==
  IF s = <<>> THEN 0
  ELSE 10 * CharsToInt(SubSeq(s, 1, Len(s) - 1)) + DigitValue(s[Len(s)])

\* ------------------------------------------------------- cell conversions
\* The texts pd.to_datetime parses, as far as the model draws them: an ISO
\* date YYYY-MM-DD with a month 01..12 and a day 01..28.
IsIsoDate(s) ==
  /\ Len(s) = 10
  /\ s[5] = "-" /\ s[8] = "-"
  /\ \A i \in {1, 2, 3, 4, 6, 7, 9, 10} : IsDigit(s[i])
  /\ CharsToInt(SubSeq(s, 6, 7)) \in 1..12
  /\ CharsToInt(SubSeq(s, 9, 10)) \in 1..28

\* pd.to_datetime(cell, errors='coerce'): a parsable text becomes a Timestamp,
\* a Timestamp stays, everything else the model draws becomes NaT.
to_datetime(v) ==
  IF v.k = "ts" THEN v
  ELSE IF v.k = "str" /\ IsIsoDate(v.s) THEN Timestamp(v.s)
  ELSE NaN

\* the texts pd.to_numeric parses, as far as the model draws them: a
\* non-empty string of decimal digits
IsNumeral(s) == s # <<>> /\ \A i \in DOMAIN s : IsDigit(s[i])

\* to_numeric with errors='ignore': the input is handed back as it is
to_numeric_ignore(v) == v

\* pd.to_numeric(cell, errors='coerce')
to_numeric(v) ==
  IF v.k = "num" THEN v
  ELSE IF v.k = "str" /\ IsNumeral(v.s) THEN Num(CharsToInt(v.s))
  ELSE NaN

\* Series.astype(str), cell by cell: str(value); str(nan) is 'nan'
astype_str(v) ==
  CASE v.k = "str" -> v
    [] v.k = "num" -> Str(IntToChars(v.n))
    [] v.k = "ts"  -> Str(v.s \o << " ", "0", "0", ":", "0", "0", ":", "0", "0" >>)
    [] OTHER       -> Str(<< "n", "a", "n" >>)

unknown == << "u", "n", "k", "n", "o", "w", "n" >>

\* a fillna that was left out
fillna_omitted(v) == v

\* Series.fillna('unknown')
fillna_unknown(v) == IF IsNa(v) THEN Str(unknown) ELSE v

\* normalize_text raises AttributeError on a value that is neither missing
\* nor a str (it has no .lower)
normalize_text_raises(v) == ~IsNa(v) /\ v.k # "str"

normalize_text(v) ==
  IF IsNa(v) THEN v
  ELSE Str(RemovePunctuation(Strip(Lower(v.s))))

usa == << "u", "s", "a" >>
uk == << "u", "k" >>
india == << "i", "n", "d", "i", "a" >>
united_states == << "u","n","i","t","e","d"," ","s","t","a","t","e","s" >>
united_kingdom == << "u","n","i","t","e","d"," ","k","i","n","g","d","o","m" >>

\* Series.replace(country_standardization), cell by cell
country_standardization(v) ==
  IF v.k # "str" THEN v
  ELSE CASE v.s = usa   -> Str(united_states)
         [] v.s = uk    -> Str(united_kingdom)
         [] v.s = india -> Str(india)
         [] OTHER       -> v

\* ------------------------------------------------------------------ tables
Table(columns, rowseq) == [cols |-> columns, rows |-> rowseq]

\* df.dropna(subset=columns, how='any')
dropna_any(t, columns) ==
  LET Keep(r) == \A c \in columns : ~IsNa(r[c])
  IN  [t EXCEPT !.rows = SelectSeq(t.rows, Keep)]

\* df.dropna(subset=columns, how='all')
dropna_all(t, columns) ==
  LET Keep(r) == \E c \in columns : ~IsNa(r[c])
  IN  [t EXCEPT !.rows = SelectSeq(t.rows, Keep)]

\* df.drop(columns=columns), the columns being there
drop_columns(t, columns) ==
  [cols |-> t.cols \ columns,
   rows |-> [i \in DOMAIN t.rows |->
               [c \in t.cols \ columns |-> t.rows[i][c]]]]

\* ----------------------------------------------------- handle_missingvalue
dropped_columns == { "source_id", "author", "url_to_image" }

\* the column labels handle_missingvalue looks up in df_data (dropna's
\* subset, the [] lookup and drop all raise KeyError on an absent label)
missingvalue_columns_data ==
  { "source_name", "published_at", "content", "full_content", "category" }
    \cup dropped_columns

\* handle_missingvalue raises KeyError: a label it names is not a column
handle_missingvalue_raises(a, d) ==
  \/ ~(missingvalue_columns_data \subseteq a.cols)
  \/ "Country" \notin d.cols

\* line 33 with how='any': a row missing either text is dropped
drop_without_text_any(t) == dropna_any(t, { "content", "full_content" })

\* line 33: rows where both content and full_content are missing go
drop_without_text(t) == dropna_all(t, { "content", "full_content" })

\* line 36 without the fill
fill_category_omitted(t) ==
  [t EXCEPT !.rows =
     [i \in DOMAIN t.rows |->
        [t.rows[i] EXCEPT !["category"] = fillna_omitted(@)]]]

\* line 36: df_data['category'] = df_data['category'].fillna('unknown')
fill_category(t) ==
  [t EXCEPT !.rows =
     [i \in DOMAIN t.rows |->
        [t.rows[i] EXCEPT !["category"] = fillna_unknown(@)]]]

\* the df_data handle_missingvalue returns (lines 24-38)
handle_missingvalue_data(a) ==
  drop_columns(
    fill_category(
      drop_without_text(
        dropna_any(dropna_any(a, { "source_name" }), { "published_at" }))),
    dropped_columns)

\* the df_domains_location handle_missingvalue returns (line 40)
handle_missingvalue_domains(d) ==
  [d EXCEPT !.rows =
     [i \in DOMAIN d.rows |->
        [d.rows[i] EXCEPT !["Country"] = fillna_unknown(@)]]]

\* -------------------------------------------- ensure_data_type_consistency
numerical_columns ==
  << "GlobalRank", "TldRank", "RefSubNets", "RefIPs",
     "PrevGlobalRank", "PrevTldRank", "PrevRefSubNets", "PrevRefIPs" >>
categorical_columns_data == << "source_name", "domain", "category" >>
categorical_columns_domains == << "SourceCommonName", "location", "Country" >>

Range(seq) == { seq[i] : i \in DOMAIN seq }

\* lines 65-68 with errors='ignore'
coerce_numeric_ignore(t) ==
  [t EXCEPT !.rows =
     [i \in DOMAIN t.rows |->
        [c \in t.cols |->
           IF c \in Range(numerical_columns)
             THEN to_numeric_ignore(t.rows[i][c])
             ELSE t.rows[i][c]]]]

\* lines 65-68: for column in numerical_columns: if column in
\* df_traffic.columns: df_traffic[column] = pd.to_numeric(...)
coerce_numeric(t) ==
  [t EXCEPT !.rows =
     [i \in DOMAIN t.rows |->
        [c \in t.cols |->
           IF c \in Range(numerical_columns)
             THEN to_numeric(t.rows[i][c])
             ELSE t.rows[i][c]]]]

\* lines 61-62 and 71-74 (published_at is no categorical column, so the two
\* steps touch different cells)
ensure_data_type_consistency_data(a) ==
  [a EXCEPT !.rows =
     [i \in DOMAIN a.rows |->
        [c \in a.cols |->
           IF c = "published_at" THEN to_datetime(a.rows[i][c])
           ELSE IF c \in Range(categorical_columns_data)
             THEN astype_str(a.rows[i][c])
           ELSE a.rows[i][c]]]]

\* lines 76-79
ensure_data_type_consistency_domains(d) ==
  [d EXCEPT !.rows =
     [i \in DOMAIN d.rows |->
        [c \in d.cols |->
           IF c \in Range(categorical_columns_domains)
             THEN astype_str(d.rows[i][c])
             ELSE d.rows[i][c]]]]

\* ----------------------------------------------- normalize_and_standardize
text_columns_data == << "source_name", "domain" >>
text_columns_domains == << "SourceCommonName", "location", "Country" >>
text_columns_traffic == << "Domain", "TLD", "IDN_Domain", "IDN_TLD" >>

\* df[column].apply(normalize_text) raises: some cell of the column does
ColumnRaises(t, column) ==
  /\ column \in t.cols
  /\ \E i \in DOMAIN t.rows : normalize_text_raises(t.rows[i][column])

\* The loop `for column in columns: if column in df.columns:
\* df[column] = df[column].apply(normalize_text)` raises: some column does
normalize_columns_raises(t, columns) ==
  \E k \in DOMAIN columns : ColumnRaises(t, columns[k])

\* The frame that loop leaves.  The frame is changed in place, column by
\* column, and a column's cells do not depend on another column: when a
\* column raises, the columns before it are normalized already and it and
\* the later ones are untouched.
normalize_columns(t, columns) ==
  [t EXCEPT !.rows =
     [i \in DOMAIN t.rows |->
        [c \in t.cols |->
           IF \E k \in DOMAIN columns :
                /\ columns[k] = c
                /\ \A j \in 1..k : ~ColumnRaises(t, columns[j])
             THEN normalize_text(t.rows[i][c])
             ELSE t.rows[i][c]]]]

\* lines 148-149
standardize_country(d) ==
  IF "Country" \in d.cols
    THEN [d EXCEPT !.rows =
            [i \in DOMAIN d.rows |->
               [d.rows[i] EXCEPT !["Country"] = country_standardization(@)]]]
    ELSE d

\* normalize_and_standardize on (df_data, df_domains_location, df_traffic):
\* whether it raised, and the three frames as it leaves them.  The frames are
\* normalized in the order data, domains, traffic; the first column that
\* raises ends the call, and Country is standardized only when none did.
normalize_and_standardize(a, d, t) ==
  LET ra == normalize_columns_raises(a, text_columns_data)
      rd == normalize_columns_raises(d, text_columns_domains)
      rt == normalize_columns_raises(t, text_columns_traffic)
  IN  [raised |-> ra \/ rd \/ rt,
       a |-> normalize_columns(a, text_columns_data),
       d |-> IF ra THEN d
             ELSE IF rd \/ rt THEN normalize_columns(d, text_columns_domains)
             ELSE standardize_country(
                    normalize_columns(d, text_columns_domains)),
       t |-> IF ra \/ rd THEN t
             ELSE normalize_columns(t, text_columns_traffic)]

\* ------------------------------------------------------------------- state
VARIABLES
  csv_data,             \* ../data/data.csv as read_csv reads it
  csv_traffic,          \* ../data/traffic.csv
  csv_domains_location, \* ../data/domains_location.csv
  df_data,              \* clean_data's local frames
  df_domains_location,
  df_traffic,
  pc,                   \* where the call of clean_data stands
  nargs,                \* how many positional arguments the caller passed
  exc,                  \* the exception that ended the call, or "none"
  result                \* the tuple clean_data returned, << >> before that

vars ==
  << csv_data, csv_traffic, csv_domains_location, df_data, df_domains_location,
     df_traffic, pc, nargs, exc, result >>

csvs == << csv_data, csv_traffic, csv_domains_location >>
frames == << df_data, df_domains_location, df_traffic >>

NoTable == Table({}, << >>)

\* what load_data returns (line 10)
load_data == << csv_data, csv_traffic, csv_domains_location >>

\* ------------------------------------------------------------------ inputs
sample_source == << " ", "B", "B", "C", "." >>
sample_domain == << "b", "b", "c", ".", "c", "o", "m" >>
sample_date == << "2", "0", "2", "4", "-", "0", "1", "-", "0", "1" >>
sample_news == << "N", "e", "w", "s" >>
sample_tld == << "C", "O", "M" >>
sample_place == << "L", "o", "n", "d", "o", "n" >>
abc == << "a", "b", "c" >>

ArticleColumns ==
  { "source_name", "domain", "published_at", "content", "full_content",
    "category" } \cup dropped_columns

DefaultArticle ==
  [c \in ArticleColumns |->
     CASE c = "source_name"  -> Str(sample_source)
       [] c = "domain"       -> Str(sample_domain)
       [] c = "published_at" -> Str(sample_date)
       [] c = "category"     -> Str(sample_news)
       [] OTHER              -> Str(<< "x" >>)]

\* what an Article cell may hold
ArticleValues(c) ==
  CASE c = "published_at" -> { Str(sample_date), Str(abc), NaN }
    [] c \in dropped_columns -> { DefaultArticle[c] }
    [] OTHER -> { DefaultArticle[c], NaN }

\* the Article rows drawn: the default row and the rows one or two cells
\* away from it
ArticleRows ==
  UNION { { [[DefaultArticle EXCEPT ![c1] = v1] EXCEPT ![c2] = v2] :
              v1 \in ArticleValues(c1), v2 \in ArticleValues(c2) } :
          c1 \in ArticleColumns, c2 \in ArticleColumns }

DomainsColumns == { "SourceCommonName", "location", "Country" }

DefaultDomains ==
  [c \in DomainsColumns |->
     CASE c = "SourceCommonName" -> Str(sample_source)
       [] c = "location"         -> Str(sample_place)
       [] OTHER                  -> Str(<< "P", "e", "r", "u" >>)]

\* what a DomainLocation cell may hold
DomainsValues(c) ==
  IF c = "Country"
    THEN { DefaultDomains[c], NaN,
           Str(<< "U", "S", "A" >>),
           Str(<< "U", ".", "K", "." >>),
           Str(<< " ", "I", "n", "d", "i", "a" >>),
           Str(<< "-", " ", "u", "k" >>) }
    ELSE { DefaultDomains[c], NaN }

\* the DomainLocation rows drawn: at most one cell away from the default row
DomainsRows ==
  UNION { { [DefaultDomains EXCEPT ![c] = v] : v \in DomainsValues(c) } :
          c \in DomainsColumns }

TrafficColumns == Range(text_columns_traffic) \cup Range(numerical_columns)

DefaultTraffic ==
  [c \in TrafficColumns |->
     CASE c \in Range(numerical_columns) -> Num(5)
       [] c \in { "TLD", "IDN_TLD" }     -> Str(sample_tld)
       [] OTHER                          -> Str(sample_domain)]

\* what a Traffic cell may hold: read_csv leaves a text column that holds
\* only numbers numeric, and a rank column that holds a word as text
TrafficValues(c) ==
  IF c \in Range(numerical_columns)
    THEN { DefaultTraffic[c], NaN, Str(abc), Str(<< "1", "2" >>) }
    ELSE { DefaultTraffic[c], NaN, Num(7) }

\* the Traffic rows drawn: at most one cell away from the default row
TrafficRows ==
  UNION { { [DefaultTraffic EXCEPT ![c] = v] : v \in TrafficValues(c) } :
          c \in TrafficColumns }

\* the texts of at most n characters over an alphabet
Texts(alphabet, n) == UNION { [1..k -> alphabet] : k \in 0..n }

\* letters of both cases, punctuation and whitespace
NormalizerAlphabet == { "u", "k", "U", "K", ".", "-", " ", "\t" }

\* ------------------------------------------------------------------- Init
\* Before the call: the three files hold any tables drawn from the rows
\* above, and data.csv may lack any of the three columns the pipeline drops
\* (read_csv takes whatever columns a file has), the rows and the lacking
\* columns being at most MaxRows together.  A column may mix numbers and
\* texts, as read_csv's chunked type inference leaves it in a long file.
Init ==
  /\ \E absent \in SUBSET dropped_columns :
     \E na \in 0..MaxRows, nd \in 0..MaxRows, nt \in 0..MaxRows :
       /\ Cardinality(absent) + na + nd + nt <= MaxRows
       /\ \E ra \in [1..na -> ArticleRows] :
            csv_data = drop_columns(Table(ArticleColumns, ra), absent)
       /\ \E rd \in [1..nd -> DomainsRows] :
            csv_domains_location = Table(DomainsColumns, rd)
       /\ \E rt \in [1..nt -> TrafficRows] :
            csv_traffic = Table(TrafficColumns, rt)
  /\ df_data = NoTable
  /\ df_domains_location = NoTable
  /\ df_traffic = NoTable
  /\ pc = "start"
  /\ nargs = 0
  /\ exc = "none"
  /\ result = << >>

\* ---------------------------------------------------------------- actions
\* The call of clean_data.  clean_data takes no parameter (line 160): the
\* call of line 176 passes none and goes on to load_data; the call of
\* test_cleandata passes three and raises TypeError before the body runs.
Call(n) ==
  /\ pc = "start"
  /\ nargs' = n
  /\ IF n = 0
       THEN /\ df_data' = load_data[1]
            /\ df_traffic' = load_data[2]
            /\ df_domains_location' = load_data[3]
            /\ pc' = "loaded"
            /\ exc' = "none"
       ELSE /\ pc' = "raised"
            /\ exc' = "TypeError"
            /\ UNCHANGED frames
  /\ UNCHANGED << csvs, result >>

\* line 165
HandleMissingValue ==
  /\ pc = "loaded"
  /\ IF handle_missingvalue_raises(df_data, df_domains_location)
       THEN /\ pc' = "raised"
            /\ exc' = "KeyError"
            /\ UNCHANGED << df_data, df_domains_location >>
       ELSE /\ df_data' = handle_missingvalue_data(df_data)
            /\ df_domains_location' =
                 handle_missingvalue_domains(df_domains_location)
            /\ pc' = "missing_handled"
            /\ exc' = "none"
  /\ UNCHANGED << csvs, df_traffic, nargs, result >>

\* line 168
EnsureDataTypeConsistency ==
  /\ pc = "missing_handled"
  /\ df_data' = ensure_data_type_consistency_data(df_data)
  /\ df_domains_location' =
       ensure_data_type_consistency_domains(df_domains_location)
  /\ df_traffic' = coerce_numeric(df_traffic)
  /\ pc' = "typed"
  /\ UNCHANGED << csvs, nargs, exc, result >>

\* what clean_data returns (line 174)
clean_data_result(a, d, t) == << a, d, t >>

\* lines 171-174: the Normalizer, and the return when it did not raise
NormalizeAndStandardize ==
  /\ pc = "typed"
  /\ \E r \in { normalize_and_standardize(df_data, df_domains_location,
                                          df_traffic) } :
         /\ df_data' = r.a
         /\ df_domains_location' = r.d
         /\ df_traffic' = r.t
         /\ IF r.raised
              THEN /\ pc' = "raised"
                   /\ exc' = "AttributeError"
                   /\ UNCHANGED result
              ELSE /\ pc' = "returned"
                   /\ exc' = "none"
                   /\ result' = clean_data_result(r.a, r.d, r.t)
  /\ UNCHANGED << csvs, nargs >>

Next ==
  \/ \E n \in { 0, 3 } : Call(n)
  \/ HandleMissingValue
  \/ EnsureDataTypeConsistency
  \/ NormalizeAndStandardize

Spec == Init /\ [][Next]_vars

\* ------------------------------------------- the Normalizer on its own
\* The frames as ensure_data_type_consistency may hand them over, one row
\* each, every text column holding the same cell: any text of at most MaxLen
\* characters, or the missing marker.
InitNormalizer ==
  /\ \E v \in { Str(s) : s \in Texts(NormalizerAlphabet, MaxLen) } \cup { NaN } :
       /\ df_data = Table(Range(text_columns_data),
                          << [c \in Range(text_columns_data) |-> v] >>)
       /\ df_domains_location =
            Table(Range(text_columns_domains),
                  << [c \in Range(text_columns_domains) |-> v] >>)
       /\ df_traffic = Table(Range(text_columns_traffic),
                             << [c \in Range(text_columns_traffic) |-> v] >>)
  /\ csv_data = df_data
  /\ csv_domains_location = df_domains_location
  /\ csv_traffic = df_traffic
  /\ pc = "typed"
  /\ nargs = 0
  /\ exc = "none"
  /\ result = << >>

\* normalize_and_standardize called once more, on the frames it returned;
\* result keeps what the first call returned
NormalizeAgain ==
  /\ pc = "returned"
  /\ \E r \in { normalize_and_standardize(df_data, df_domains_location,
                                          df_traffic) } :
         /\ df_data' = r.a
         /\ df_domains_location' = r.d
         /\ df_traffic' = r.t
         /\ pc' = IF r.raised THEN "raised" ELSE "returned_again"
         /\ exc' = IF r.raised THEN "AttributeError" ELSE "none"
  /\ UNCHANGED << csvs, nargs, result >>

NextNormalizer ==
  \/ NormalizeAndStandardize
  \/ NormalizeAgain

SpecNormalizer == InitNormalizer /\ [][NextNormalizer]_vars

\* ------------------------------------------------------------------ claims
\* An input Article row that handle_missingvalue is to keep: source_name and
\* published_at present, content and full_content not both missing.
Survives(r) ==
  /\ ~IsNa(r["source_name"])
  /\ ~IsNa(r["published_at"])
  /\ ~(IsNa(r["content"]) /\ IsNa(r["full_content"]))

Survivors == SelectSeq(csv_data.rows, Survives)

\* handle_missingvalue has returned (the Normalizer may have raised since)
AfterMissingValue ==
  \/ pc \in { "missing_handled", "typed", "returned" }
  \/ pc = "raised" /\ exc = "AttributeError"

\* ensure_data_type_consistency has returned
AfterTypeCoercer ==
  \/ pc \in { "typed", "returned" }
  \/ pc = "raised" /\ exc = "AttributeError"

\* C1: after the full pipeline every Article row has a non-null source_name
\* and a non-null published_at, also a row whose published_at was present
\* but is no timestamp.
C1_NonNullAfterPipeline ==
  pc = "returned" =>
    \A i \in DOMAIN result[1].rows :
      /\ ~IsNa(result[1].rows[i]["source_name"])
      /\ ~IsNa(result[1].rows[i]["published_at"])

\* C2: the Article table the pipeline produces never holds source_id, author
\* or url_to_image, and the pipeline completes (no KeyError) also when
\* data.csv lacks one or more of them.
C2_ProjectionWhateverTheInput ==
  /\ pc = "returned" => result[1].cols \cap dropped_columns = {}
  /\ ~(dropped_columns \subseteq csv_data.cols) => exc # "KeyError"

\* C3: the Normalizer is idempotent: run on the three tables it returned, it
\* returns them unchanged, cell for cell.
C3_NormalizerIdempotent ==
  pc = "returned_again" =>
    << df_data, df_domains_location, df_traffic >> = result

NoEdgeWhitespace(s) ==
  s = << >> \/ (s[1] \notin Whitespace /\ s[Len(s)] \notin Whitespace)

IsNormalText(v) ==
  IsNa(v) \/
    /\ v.k = "str"
    /\ \A i \in DOMAIN v.s : ~IsUpper(v.s[i]) /\ v.s[i] \notin Punctuation
    /\ NoEdgeWhitespace(v.s)

\* C4: after the Normalizer every non-null cell of a normalized text column
\* (of Article, DomainLocation and Traffic) has no uppercase letter, no ASCII
\* punctuation and no leading or trailing whitespace.
C4_TextColumnsNormal ==
  pc = "returned" =>
    /\ \A i \in DOMAIN result[1].rows :
         \A c \in Range(text_columns_data) \cap result[1].cols :
           IsNormalText(result[1].rows[i][c])
    /\ \A i \in DOMAIN result[2].rows :
         \A c \in Range(text_columns_domains) \cap result[2].cols :
           IsNormalText(result[2].rows[i][c])
    /\ \A i \in DOMAIN result[3].rows :
         \A c \in Range(text_columns_traffic) \cap result[3].cols :
           IsNormalText(result[3].rows[i][c])

\* the normal form the claim names: lowercased, depunctuated, trimmed
NormalForm(s) == Strip(RemovePunctuation(Lower(s)))

\* the standardization table's image of a text, the text itself off the table
TableImage(s) ==
  CASE s = usa   -> united_states
    [] s = uk    -> united_kingdom
    [] s = india -> india
    [] OTHER     -> s

\* C5: after the full pipeline the Country of every DomainLocation row is the
\* standardization table's image of the input Country's normal form
\* (lowercased, depunctuated, whitespace-trimmed), or that normal form when
\* it is no key of the table.
C5_CountryStandardized ==
  pc = "returned" =>
    /\ Len(result[2].rows) = Len(csv_domains_location.rows)
    /\ \A i \in DOMAIN csv_domains_location.rows :
         LET before == csv_domains_location.rows[i]["Country"]
         IN  before.k = "str" =>
               result[2].rows[i]["Country"] = Str(TableImage(NormalForm(before.s)))

\* C6: once handle_missingvalue has run, the Article rows are exactly the
\* input rows it is to keep (so a row with content and full_content both
\* missing is gone and a row with one of them is kept), none has content and
\* full_content both null, and both columns are as in the input, through
\* TypeCoercer and Normalizer.
C6_ContentKept ==
  AfterMissingValue =>
    /\ Len(df_data.rows) = Len(Survivors)
    /\ \A i \in DOMAIN df_data.rows :
         /\ df_data.rows[i]["content"] = Survivors[i]["content"]
         /\ df_data.rows[i]["full_content"] = Survivors[i]["full_content"]
         /\ ~(IsNa(df_data.rows[i]["content"])
                /\ IsNa(df_data.rows[i]["full_content"]))

\* The pipeline returned, having dropped a row that lacked both texts and
\* kept a row that lacked one of them.
C6_Witness ==
  /\ pc = "returned"
  /\ Len(csv_data.rows) = 2
  /\ Len(result[1].rows) = 1
  /\ \E i \in DOMAIN csv_data.rows :
       /\ ~IsNa(csv_data.rows[i]["source_name"])
       /\ ~IsNa(csv_data.rows[i]["published_at"])
       /\ IsNa(csv_data.rows[i]["content"])
       /\ IsNa(csv_data.rows[i]["full_content"])
  /\ IsNa(result[1].rows[1]["content"])
  /\ ~IsNa(result[1].rows[1]["full_content"])

\* C7: an Article row that survives handle_missingvalue and whose input
\* category is missing has category "unknown" after handle_missingvalue,
\* after TypeCoercer and after Normalizer.
C7_CategoryUnknown ==
  AfterMissingValue =>
    /\ Len(df_data.rows) = Len(Survivors)
    /\ \A i \in DOMAIN df_data.rows :
         IsNa(Survivors[i]["category"]) =>
           df_data.rows[i]["category"] = Str(unknown)

\* The pipeline returned a row whose input category was missing.
C7_Witness ==
  /\ pc = "returned"
  /\ \E i \in DOMAIN result[1].rows :
       /\ IsNa(Survivors[i]["category"])
       /\ result[1].rows[i]["category"] = Str(unknown)

\* a text pd.to_numeric cannot parse
Unparsable(v) == v.k = "str" /\ ~IsNumeral(v.s)

\* C8: once TypeCoercer has run, Traffic has the rows it had, and a cell of a
\* numeric column whose input was not parsable as a number is null; it is
\* still null after the Normalizer, whether that returned or raised.
C8_UnparsableStaysNull ==
  AfterTypeCoercer =>
    /\ Len(df_traffic.rows) = Len(csv_traffic.rows)
    /\ \A i \in DOMAIN csv_traffic.rows :
         \A c \in Range(numerical_columns) \cap csv_traffic.cols :
           Unparsable(csv_traffic.rows[i][c]) => IsNa(df_traffic.rows[i][c])

\* The pipeline returned a Traffic row whose rank was the text "abc".
C8_Witness ==
  /\ pc = "returned"
  /\ \E i \in DOMAIN csv_traffic.rows :
       \E c \in Range(numerical_columns) :
         /\ csv_traffic.rows[i][c] = Str(abc)
         /\ IsNa(result[3].rows[i][c])

\* C9: clean_data called with the three tables of load_data, in load_data's
\* order (Article, Traffic, DomainLocation), completes and returns the
\* cleaned tables in that order: the call with three arguments does not
\* raise, and what is returned is (cleaned Article, cleaned Traffic, cleaned
\* DomainLocation).
C9_CallAndOrder ==
  /\ ~(nargs = 3 /\ pc = "raised")
  /\ pc = "returned" => result = << df_data, df_traffic, df_domains_location >>

\* C10: the Normalizer is total on what TypeCoercer returns: it never raises.
C10_NormalizerTotal == exc # "AttributeError"

====
